---- MODULE Spec2Model ----
(***************************************************************************)
(* Model of the judgement pipeline deployment (judgement.py): the request  *)
(* handler Translator.__call__, the per-task pipeline process_single_task, *)
(* the region formatter formatted_model_results and the create-or-update   *)
(* write create_prediction, together with the two collaborators the code   *)
(* talks to: the object store (boto3 get_object) and the annotation        *)
(* platform (requests.get / requests.put / requests.post).                 *)
(*                                                                         *)
(* Numbers that Python computes with "/" are kept as exact fractions       *)
(* [num, den]; a fraction with den = 0 stands for a raised                 *)
(* ZeroDivisionError.                                                      *)
(***************************************************************************)
EXTENDS Integers, Sequences, FiniteSets, TLC

VARIABLES
    ls_predictions,  \* annotation platform: task id -> sequence of stored Predictions
    written,         \* history: task ids whose run completed a 2xx write
    nreq,            \* number of requests received so far
    path,            \* request.url.path of the current request
    tasks,           \* json_data.get("tasks")
    from_name,       \* label schema field names of the current request
    to_name,
    idx,             \* position of the for loop in tasks (1-based)
    pc,              \* position of the handler
    task_id,         \* locals of process_single_task / __call__
    previous_prediction_result,
    is_prediction_exist,
    image_data,
    layout_predicted,
    results,
    score,
    res,
    predictions,     \* the response list being built
    response,        \* what the last request returned (or that it raised)
    calls,           \* history: calls the current request made to its collaborators
    peer             \* a task run of a second, parallel request (SpecConcurrent only)

vars == <<ls_predictions, written, nreq, path, tasks, from_name, to_name, idx, pc,
          task_id, previous_prediction_result, is_prediction_exist, image_data,
          layout_predicted, results, score, res, predictions, response, calls, peer>>

platformVars == <<ls_predictions, written>>
requestVars == <<path, tasks, from_name, to_name>>
localVars == <<task_id, previous_prediction_result, is_prediction_exist, image_data,
               layout_predicted, results, score, res>>

---------------------------------------------------------------------------
(* Bounds of the model *)

MaxRequests == 2    \* requests received in one behaviour
MaxBatch == 2       \* tasks in one request
MaxBlocks == 2      \* detected regions in a formatter input (SpecFormat)

---------------------------------------------------------------------------
(* Exact fractions for the float arithmetic of the formatter *)

Rat(n, d) == [num |-> n, den |-> d]
RatEq(a, b) == a.den # 0 /\ b.den # 0 /\ a.num * b.den = b.num * a.den
RatLeq(a, b) == a.den > 0 /\ b.den > 0 /\ a.num * b.den <= b.num * a.den
RatAdd(a, b) == Rat(a.num * b.den + b.num * a.den, a.den * b.den)
RatGtZero(a) == a.den > 0 /\ a.num > 0
\* a / n for an integer n; n = 0 raises ZeroDivisionError (den = 0)
RatDivInt(a, n) == Rat(a.num, a.den * n)
Raised(a) == a.den = 0

---------------------------------------------------------------------------
(* The collaborators' data: tasks, object store, detector *)

images_bucket == "images"           \* os.getenv("IMAGES_BUCKET")
model_version == "detectron2"       \* the tag create_prediction writes
response_model_version == "something"

\* An image reference is its URI split at "/": "s3://images/a.png" is
\* <<"s3:", "", "images", "a.png">>.
UriA == <<"s3:", "", "images", "a.png">>
UriB == <<"s3:", "", "scans", "2024", "b.png">>
UriGone == <<"s3:", "", "images", "gone.png">>
UriBad == <<"s3:", "", "images", "bad.png">>

\* Tasks are owned by the platform and immutable: the id fixes the image.
TaskPool ==
    { [id |-> 1, data |-> [image |-> UriA]],
      [id |-> 2, data |-> [image |-> UriB]],
      [id |-> 3, data |-> [image |-> UriGone]],
      [id |-> 4, data |-> [image |-> UriBad]] }

TaskIds == { t.id : t \in TaskPool }

\* Object store content: decodable image bytes, undecodable bytes, or nothing.
StoredObject(bucket, key) ==
    IF bucket = "images" /\ key = "a.png"
    THEN [kind |-> "image", name |-> "a", shape |-> <<2000, 1000>>]
    ELSE IF bucket = "scans" /\ key = "b.png"
    THEN [kind |-> "image", name |-> "b", shape |-> <<100, 200>>]
    ELSE IF bucket = "images" /\ key = "bad.png"
    THEN [kind |-> "garbage", name |-> "bad", shape |-> <<0, 0>>]
    ELSE [kind |-> "absent", name |-> "", shape |-> <<0, 0>>]

Block(type, conf, x1, y1, x2, y2) ==
    [type |-> type, score |-> Rat(conf, 100),
     block |-> [x_1 |-> x1, y_1 |-> y1, x_2 |-> x2, y_2 |-> y2]]

\* What the layout model detects in each image (confidences in hundredths).
DetectedLayout(image) ==
    IF image.name = "a"
    THEN << Block("table", 90, 100, 100, 200, 200) >>
    ELSE << Block("text", 50, 10, 20, 60, 40), Block("title", 70, 50, 5, 190, 15) >>

NoLayout == << >>
None == << >>
Some(v) == << v >>

\* A Prediction that was on the platform before the service ran.
OldPrediction(t) ==
    [result |-> << >>, score |-> Rat(0, 1), model_version |-> "manual", task |-> t]

---------------------------------------------------------------------------
(* Translator.get_image_from_s3: bucket and key of an image reference *)

Basename(image_path) == image_path[Len(image_path)]
BucketName(image_path) == image_path[3]
GetObjectBucket(image_path) ==
    IF BucketName(image_path) # images_bucket
    THEN BucketName(image_path)
    ELSE images_bucket

---------------------------------------------------------------------------
(* Translator.formatted_model_results *)

PadX1 == 30
PadX2 == 10
Percent == 100

\* mutant: the right edge is padded like the left one
FormatBlock_SymmetricPadding(fn, tn, img_height, img_width, block) ==
    LET x == block.block.x_1 - PadX1
        y == block.block.y_1
        xmax == block.block.x_2 + PadX1
        ymax == block.block.y_2
    IN  [from_name |-> fn,
         to_name |-> tn,
         type |-> "rectanglelabels",
         value |-> [rectanglelabels |-> << block.type >>,
                    x |-> Rat(x * Percent, img_width),
                    y |-> Rat(y * Percent, img_height),
                    width |-> Rat((xmax - x) * Percent, img_width),
                    height |-> Rat((ymax - y) * Percent, img_height)],
         score |-> block.score]

FormatBlock(fn, tn, img_height, img_width, block) ==
    LET x == block.block.x_1 - PadX1
        y == block.block.y_1
        xmax == block.block.x_2 + PadX2
        ymax == block.block.y_2
    IN  [from_name |-> fn,
         to_name |-> tn,
         type |-> "rectanglelabels",
         value |-> [rectanglelabels |-> << block.type >>,
                    x |-> Rat(x * Percent, img_width),
                    y |-> Rat(y * Percent, img_height),
                    width |-> Rat((xmax - x) * Percent, img_width),
                    height |-> Rat((ymax - y) * Percent, img_height)],
         score |-> block.score]

RECURSIVE ScoreSum(_, _)
ScoreSum(blocks, n) ==
    IF n = 0 THEN Rat(0, 1) ELSE RatAdd(ScoreSum(blocks, n - 1), blocks[n].score)

\* mutant: the guard lets a zero sum through to the division
AvgScore_DividesZeroSum(score_sum, n) ==
    IF score_sum.num >= 0 THEN RatDivInt(score_sum, n) ELSE Rat(0, 1)

AvgScore(score_sum, n) ==
    IF RatGtZero(score_sum) THEN RatDivInt(score_sum, n) ELSE Rat(0, 1)

formatted_model_results(fn, tn, img_height, img_width, layout_predicted_results) ==
    LET out == [k \in 1..Len(layout_predicted_results) |->
                    FormatBlock(fn, tn, img_height, img_width,
                                layout_predicted_results[k])]
        score_sum == ScoreSum(layout_predicted_results, Len(layout_predicted_results))
    IN  [results |-> out, avg_score |-> AvgScore(score_sum, Len(out))]

\* A division by zero anywhere in the formatter raises out of it.
FormatRaises(f) ==
    \/ Raised(f.avg_score)
    \/ \E k \in 1..Len(f.results) :
          \/ Raised(f.results[k].value.x) \/ Raised(f.results[k].value.y)
          \/ Raised(f.results[k].value.width) \/ Raised(f.results[k].value.height)

---------------------------------------------------------------------------
(* Translator.create_prediction: the request it sends *)

\* mutant: the update branch is lost, every write creates
WriteMethod_AlwaysCreate(exists) == "POST"

WriteMethod(exists) == IF exists THEN "PUT" ELSE "POST"

\* mutant: an update keeps the score the existence check returned
WritePayload_KeepsOldScore(r, t, sc) ==
    [result |-> r,
     score |-> IF previous_prediction_result # None
               THEN previous_prediction_result[1].score ELSE sc,
     model_version |-> model_version, task |-> t]

\* lines 110-115, 117-122: the JSON body, the same for PUT and POST
WritePayload(r, t, sc) ==
    [result |-> r, score |-> sc, model_version |-> model_version, task |-> t]

---------------------------------------------------------------------------
(* Inputs of a request *)

Paths == {"/health", "/setup", "/judgement_pipeline/predict", "/judgement_pipeline/train"}

RECURSIVE SeqsUpTo(_, _)
SeqsUpTo(S, n) ==
    IF n = 0 THEN { << >> }
    ELSE LET shorter == SeqsUpTo(S, n - 1)
         IN  shorter \cup { Append(q, e) : q \in { r \in shorter : Len(r) = n - 1 }, e \in S }

Batches == SeqsUpTo(TaskPool, MaxBatch)

\* parse_config(label_config) as the ordered mapping it returns: control tag
\* name -> its attributes. The second one has no "label" control, the third
\* has no control at all.
LabelConfigs ==
    { << [name |-> "label", to_name |-> << "image" >>] >>,
      << [name |-> "choice", to_name |-> << "image" >>] >>,
      << >> }

HasLabel(label_config) == \E k \in 1..Len(label_config) : label_config[k].name = "label"
LabelOf(label_config) ==
    label_config[CHOOSE k \in 1..Len(label_config) : label_config[k].name = "label"]

---------------------------------------------------------------------------
(* The annotation platform *)

StatusOk == 200

\* GET <base>/{task_id}: the stored prediction with 200, not-found, or a
\* server-side failure whatever is stored.
GetStatuses(t) == IF ls_predictions[t] # << >> THEN {StatusOk, 500} ELSE {404, 500}

Is2xx(status) == status >= 200 /\ status < 300

\* POST <base> creates a prediction (201); PUT <base> replaces a stored
\* prediction of the payload's task (200), not-found when there is none; either
\* may fail server-side and then changes nothing.
WriteStatuses(method, t) ==
    IF method = "POST" THEN {201, 500}
    ELSE IF ls_predictions[t] # << >> THEN {200, 500} ELSE {404, 500}

NoResponse == [kind |-> "none", body |-> << >>]
Exception(name) == [kind |-> "exception", body |-> name]

\* An entry of the call history. status is the HTTP status of a network call;
\* for a local call (imdecode, detect, format) 200 says it returned a value and
\* 500 that it raised or returned nothing.
Call(op, i, t, status, payload) ==
    [op |-> op, idx |-> i, task |-> t, status |-> status, payload |-> payload]

---------------------------------------------------------------------------
(* Initial state: the deployment is constructed, no request received yet. *)
(* On the platform tasks 1 and 3 already have a prediction, tasks 2 and 4  *)
(* have none: each kind of image meets both outcomes of the first check.   *)

InitiallyPredicted == {1, 3}

\* The parallel task run has not started.
PeerIdle ==
    [pc |-> "idle", task |-> 0, check |-> 0, is_prediction_exist |-> FALSE,
     image_data |-> None, results |-> << >>, score |-> Rat(0, 1), res |-> None]

IdleLocals ==
    /\ task_id = 0
    /\ previous_prediction_result = None
    /\ is_prediction_exist = FALSE
    /\ image_data = None
    /\ layout_predicted = NoLayout
    /\ results = << >>
    /\ score = Rat(0, 1)
    /\ res = None

Init ==
    /\ ls_predictions = [t \in TaskIds |->
                            IF t \in InitiallyPredicted THEN << OldPrediction(t) >> ELSE << >>]
    /\ written = {}
    /\ nreq = 0
    /\ path = ""
    /\ tasks = << >>
    /\ from_name = ""
    /\ to_name = ""
    /\ idx = 1
    /\ pc = "idle"
    /\ IdleLocals
    /\ predictions = << >>
    /\ response = NoResponse
    /\ calls = << >>
    /\ peer = PeerIdle

ResetLocals ==
    /\ task_id' = 0
    /\ previous_prediction_result' = None
    /\ is_prediction_exist' = FALSE
    /\ image_data' = None
    /\ layout_predicted' = NoLayout
    /\ results' = << >>
    /\ score' = Rat(0, 1)
    /\ res' = None

---------------------------------------------------------------------------
(* Translator.__call__: route dispatch and the head of the predict route *)

\* mutant: the final else is lost, an unknown path is answered like /health
Probe_UnknownIsHealth ==
    /\ pc = "idle"
    /\ nreq < MaxRequests
    /\ \E p \in Paths \ {"/judgement_pipeline/predict"} :
         /\ path' = p
         /\ response' = IF p = "/setup"
                        THEN [kind |-> "dict", body |-> [status |-> "setup done"]]
                        ELSE [kind |-> "dict", body |-> [status |-> "ok"]]
    /\ nreq' = nreq + 1
    /\ pc' = "done"
    /\ UNCHANGED <<peer, platformVars, tasks, from_name, to_name, idx, localVars,
                   predictions, calls>>

\* lines 142-149, 174-175: the routes that touch nothing
Probe ==
    /\ pc = "idle"
    /\ nreq < MaxRequests
    /\ \E p \in Paths \ {"/judgement_pipeline/predict"} :
         /\ path' = p
         /\ response' = IF p = "/health" THEN [kind |-> "dict", body |-> [status |-> "ok"]]
                        ELSE IF p = "/setup"
                        THEN [kind |-> "dict", body |-> [status |-> "setup done"]]
                        ELSE [kind |-> "dict", body |-> [error |-> "Invalid endpoint"]]
    /\ nreq' = nreq + 1
    /\ pc' = "done"
    /\ UNCHANGED <<peer, platformVars, tasks, from_name, to_name, idx, localVars,
                   predictions, calls>>

\* lines 150-159: the predict route up to the for loop
Predict ==
    /\ pc = "idle"
    /\ nreq < MaxRequests
    /\ \E ts \in Batches, label_config \in LabelConfigs :
         /\ path' = "/judgement_pipeline/predict"
         /\ tasks' = ts
         /\ IF Len(label_config) = 0
            THEN /\ response' = Exception("IndexError")
                 /\ pc' = "done"
                 /\ from_name' = ""
                 /\ to_name' = ""
            ELSE IF ~HasLabel(label_config)
            THEN /\ response' = Exception("AttributeError")
                 /\ pc' = "done"
                 /\ from_name' = label_config[1].name
                 /\ to_name' = ""
            ELSE /\ response' = NoResponse
                 /\ pc' = "loop"
                 /\ from_name' = label_config[1].name
                 /\ to_name' = LabelOf(label_config).to_name[1]
    /\ nreq' = nreq + 1
    /\ UNCHANGED <<peer, platformVars, idx, localVars, predictions, calls>>

---------------------------------------------------------------------------
(* Translator.process_single_task, one action per blocking call *)

\* An exception leaves the handler: no response list, the batch is over.
Abort(name) ==
    /\ response' = Exception(name)
    /\ pc' = "done"

\* lines 160-162, 127-130: next task of the batch, existence check
GetPreviousPrediction ==
    /\ pc = "loop"
    /\ idx <= Len(tasks)
    /\ LET t == tasks[idx].id IN
         /\ task_id' = t
         /\ \E status \in GetStatuses(t) :
              /\ calls' = Append(calls, Call("GET", idx, t, status, None))
              /\ IF status = StatusOk
                 THEN \E k \in 1..Len(ls_predictions[t]) :
                        previous_prediction_result' = Some(ls_predictions[t][k])
                 ELSE previous_prediction_result' = None
         /\ is_prediction_exist' = (previous_prediction_result' # None)
    /\ pc' = "get_image"
    /\ UNCHANGED <<peer, platformVars, requestVars, nreq, idx, image_data, layout_predicted,
                   results, score, res, predictions, response>>

\* lines 131-134, 66-80: fetch and decode the task's image
GetImage ==
    /\ pc = "get_image"
    /\ LET image_path == tasks[idx].data.image
           bucket == GetObjectBucket(image_path)
           object == StoredObject(bucket, Basename(image_path))
       IN /\ calls' = IF object.kind = "absent"
                       THEN Append(calls, Call("get_object", idx, task_id, 404, None))
                       ELSE calls \o << Call("get_object", idx, task_id, StatusOk, None),
                                        Call("imdecode", idx, task_id,
                                             IF object.kind = "image" THEN StatusOk ELSE 500,
                                             None) >>
          /\ IF object.kind = "absent"
             THEN /\ Abort("NoSuchKey")               \* get_object raises
                  /\ UNCHANGED image_data
             ELSE IF object.kind = "garbage"
             THEN /\ Abort("AttributeError")          \* imdecode gave None; None.shape
                  /\ UNCHANGED image_data
             ELSE /\ image_data' = Some(object)
                  /\ pc' = "detect"
                  /\ UNCHANGED response
    /\ UNCHANGED <<peer, platformVars, requestVars, nreq, idx, task_id,
                   previous_prediction_result, is_prediction_exist, layout_predicted,
                   results, score, res, predictions>>

\* mutant: the detector's exception is swallowed and the task goes on with no
\* detections
Detect_SwallowsException ==
    /\ pc = "detect"
    /\ \/ /\ layout_predicted' = DetectedLayout(image_data[1])
          /\ calls' = Append(calls, Call("detect", idx, task_id, StatusOk, None))
       \/ /\ layout_predicted' = NoLayout
          /\ calls' = Append(calls, Call("detect", idx, task_id, 500, None))
    /\ pc' = "format"
    /\ UNCHANGED <<peer, platformVars, requestVars, nreq, idx, task_id,
                   previous_prediction_result, is_prediction_exist, image_data,
                   results, score, res, predictions, response>>

\* line 135: the layout model runs, or throws
Detect ==
    /\ pc = "detect"
    /\ \/ /\ layout_predicted' = DetectedLayout(image_data[1])
          /\ calls' = Append(calls, Call("detect", idx, task_id, StatusOk, None))
          /\ pc' = "format"
          /\ UNCHANGED response
       \/ /\ Abort("RuntimeError")
          /\ calls' = Append(calls, Call("detect", idx, task_id, 500, None))
          /\ UNCHANGED layout_predicted
    /\ UNCHANGED <<peer, platformVars, requestVars, nreq, idx, task_id,
                   previous_prediction_result, is_prediction_exist, image_data,
                   results, score, res, predictions>>

\* mutant: the write is left out, the formatted result goes straight to the
\* response list
FormatResults_SkipsWrite ==
    /\ pc = "format"
    /\ LET img_width == image_data[1].shape[2]
           img_height == image_data[1].shape[1]
           f == formatted_model_results(from_name, to_name, img_height, img_width,
                                        layout_predicted)
       IN /\ results' = f.results
          /\ score' = f.avg_score
          /\ calls' = Append(calls, Call("format", idx, task_id, StatusOk, None))
          /\ pc' = "append"
    /\ UNCHANGED <<peer, platformVars, requestVars, nreq, idx, task_id,
                   previous_prediction_result, is_prediction_exist, image_data,
                   layout_predicted, res, predictions, response>>

\* lines 134, 137-139: format the detections
FormatResults ==
    /\ pc = "format"
    /\ LET img_width == image_data[1].shape[2]
           img_height == image_data[1].shape[1]
           f == formatted_model_results(from_name, to_name, img_height, img_width,
                                        layout_predicted)
       IN IF FormatRaises(f)
          THEN /\ Abort("ZeroDivisionError")
               /\ calls' = Append(calls, Call("format", idx, task_id, 500, None))
               /\ UNCHANGED <<results, score>>
          ELSE /\ results' = f.results
               /\ score' = f.avg_score
               /\ calls' = Append(calls, Call("format", idx, task_id, StatusOk, None))
               /\ pc' = "create_prediction"
               /\ UNCHANGED response
    /\ UNCHANGED <<peer, platformVars, requestVars, nreq, idx, task_id,
                   previous_prediction_result, is_prediction_exist, image_data,
                   layout_predicted, res, predictions>>

---------------------------------------------------------------------------
(* Translator.create_prediction and the rest of the loop body *)

\* mutant: a non-2xx write response raises (res.raise_for_status())
CreatePrediction_RaisesOnFailure ==
    /\ pc = "create_prediction"
    /\ LET method == WriteMethod(is_prediction_exist)
           payload == WritePayload(results, task_id, score)
           t == payload.task
       IN \E status \in WriteStatuses(method, t) :
            /\ calls' = Append(calls, Call(method, idx, t, status, Some(payload)))
            /\ res' = Some([status_code |-> status])
            /\ IF ~Is2xx(status)
               THEN /\ Abort("HTTPError")
                    /\ UNCHANGED platformVars
               ELSE /\ written' = written \cup {t}
                    /\ pc' = "append"
                    /\ UNCHANGED response
                    /\ IF method = "POST"
                       THEN ls_predictions' =
                              [ls_predictions EXCEPT ![t] = Append(@, payload)]
                       ELSE \E k \in 1..Len(ls_predictions[t]) :
                              ls_predictions' =
                                [ls_predictions EXCEPT ![t] = [@ EXCEPT ![k] = payload]]
    /\ UNCHANGED <<peer, requestVars, nreq, idx, task_id, previous_prediction_result,
                   is_prediction_exist, image_data, layout_predicted, results, score,
                   predictions>>

\* mutant: a write that was refused is sent once more
CreatePrediction_Retries ==
    /\ pc = "create_prediction"
    /\ LET method == WriteMethod(is_prediction_exist)
           payload == WritePayload(results, task_id, score)
           t == payload.task
       IN \E status \in WriteStatuses(method, t) :
            /\ calls' = Append(calls, Call(method, idx, t, status, Some(payload)))
            /\ res' = Some([status_code |-> status])
            /\ pc' = IF ~Is2xx(status) /\ calls[Len(calls)].op = "format"
                     THEN "create_prediction" ELSE "append"
            /\ IF ~Is2xx(status)
               THEN UNCHANGED platformVars
               ELSE /\ written' = written \cup {t}
                    /\ IF method = "POST"
                       THEN ls_predictions' =
                              [ls_predictions EXCEPT ![t] = Append(@, payload)]
                       ELSE \E k \in 1..Len(ls_predictions[t]) :
                              ls_predictions' =
                                [ls_predictions EXCEPT ![t] = [@ EXCEPT ![k] = payload]]
    /\ UNCHANGED <<peer, requestVars, nreq, idx, task_id, previous_prediction_result,
                   is_prediction_exist, image_data, layout_predicted, results, score,
                   predictions, response>>

\* lines 164-166, 108-124: one PUT or POST; the response is logged, not inspected
CreatePrediction ==
    /\ pc = "create_prediction"
    /\ LET method == WriteMethod(is_prediction_exist)
           payload == WritePayload(results, task_id, score)
           t == payload.task
       IN \E status \in WriteStatuses(method, t) :
            /\ calls' = Append(calls, Call(method, idx, t, status, Some(payload)))
            /\ res' = Some([status_code |-> status])
            /\ IF ~Is2xx(status)
               THEN UNCHANGED platformVars
               ELSE /\ written' = written \cup {t}
                    /\ IF method = "POST"
                       THEN ls_predictions' =
                              [ls_predictions EXCEPT ![t] = Append(@, payload)]
                       ELSE \E k \in 1..Len(ls_predictions[t]) :
                              ls_predictions' =
                                [ls_predictions EXCEPT ![t] = [@ EXCEPT ![k] = payload]]
    /\ pc' = "append"
    /\ UNCHANGED <<peer, requestVars, nreq, idx, task_id, previous_prediction_result,
                   is_prediction_exist, image_data, layout_predicted, results, score,
                   predictions, response>>

\* mutant: the entry is put at the front of the response list
AppendPrediction_Prepends ==
    /\ pc = "append"
    /\ predictions' = << [result |-> results, score |-> score,
                          model_version |-> response_model_version] >> \o predictions
    /\ idx' = idx + 1
    /\ pc' = "loop"
    /\ UNCHANGED <<peer, platformVars, requestVars, nreq, localVars, response, calls>>

\* mutant: the entry of a task whose write was refused carries no regions
AppendPrediction_EmptyOnRefusedWrite ==
    /\ pc = "append"
    /\ predictions' = Append(predictions,
                             [result |-> IF Is2xx(res[1].status_code) THEN results ELSE << >>,
                              score |-> score,
                              model_version |-> response_model_version])
    /\ idx' = idx + 1
    /\ pc' = "loop"
    /\ UNCHANGED <<peer, platformVars, requestVars, nreq, localVars, response, calls>>

\* lines 167-171: the task's entry of the response list
AppendPrediction ==
    /\ pc = "append"
    /\ predictions' = Append(predictions,
                             [result |-> results, score |-> score,
                              model_version |-> response_model_version])
    /\ idx' = idx + 1
    /\ pc' = "loop"
    /\ UNCHANGED <<peer, platformVars, requestVars, nreq, localVars, response, calls>>

\* lines 172-173: the loop is over, the list is the response
Return ==
    /\ pc = "loop"
    /\ idx > Len(tasks)
    /\ response' = [kind |-> "list", body |-> predictions]
    /\ pc' = "done"
    /\ UNCHANGED <<peer, platformVars, requestVars, nreq, idx, localVars, predictions, calls>>

\* The request is over: its response is sent and everything scoped to the
\* request (the handler's locals, the history of its calls) is gone; only the
\* platform keeps what was written.
EndRequest ==
    /\ pc = "done"
    /\ pc' = "idle"
    /\ path' = ""
    /\ tasks' = << >>
    /\ from_name' = ""
    /\ to_name' = ""
    /\ idx' = 1
    /\ predictions' = << >>
    /\ response' = NoResponse
    /\ calls' = << >>
    /\ ResetLocals
    /\ UNCHANGED <<peer, platformVars, nreq>>

Next ==
    \/ Probe
    \/ Predict
    \/ GetPreviousPrediction
    \/ GetImage
    \/ Detect
    \/ FormatResults
    \/ CreatePrediction
    \/ AppendPrediction
    \/ Return
    \/ EndRequest

Spec == Init /\ [][Next]_vars

TypeOK ==
    /\ pc \in {"idle", "done", "loop", "get_image", "detect", "format", "create_prediction", "append"}
    /\ nreq \in 0..MaxRequests
    /\ idx \in 1..(Len(tasks) + 1)
    /\ \A t \in TaskIds : \A k \in 1..Len(ls_predictions[t]) : ls_predictions[t][k].task = t

---------------------------------------------------------------------------
(* The formatter on arbitrary detector output: the handler stands at the   *)
(* call of formatted_model_results (line 137) with any bounded list of     *)
(* detected regions and any of the image sizes.                            *)

FormatLabels == {"table", "text"}
FormatConfidences == {0, 50, 70}
\* <<x1, y1, x2, y2>>: inside the image; pushed negative by the padding;
\* x2 < x1 and y2 < y1; negative and beyond the image.
FormatBoxes == { <<100, 100, 200, 200>>, <<10, 20, 60, 40>>,
                 <<150, 30, 100, 10>>, <<0 - 5, 0 - 10, 300, 250>> }
FormatShapes == { <<2000, 1000>>, <<100, 200>> }

FormatBlocks ==
    { Block(l, c, b[1], b[2], b[3], b[4]) :
        l \in FormatLabels, c \in FormatConfidences, b \in FormatBoxes }

FormatInit ==
    /\ ls_predictions = [t \in TaskIds |->
                            IF t \in InitiallyPredicted THEN << OldPrediction(t) >> ELSE << >>]
    /\ written = {}
    /\ nreq = 1
    /\ path = "/judgement_pipeline/predict"
    /\ tasks = << [id |-> 1, data |-> [image |-> UriA]] >>
    /\ from_name = "label"
    /\ to_name = "image"
    /\ idx = 1
    /\ pc = "format"
    /\ task_id = 1
    /\ previous_prediction_result = None
    /\ is_prediction_exist = FALSE
    /\ image_data \in { Some([kind |-> "image", name |-> "a", shape |-> sh]) :
                          sh \in FormatShapes }
    /\ layout_predicted \in SeqsUpTo(FormatBlocks, MaxBlocks)
    /\ results = << >>
    /\ score = Rat(0, 1)
    /\ res = None
    /\ predictions = << >>
    /\ response = NoResponse
    /\ calls = << >>
    /\ peer = PeerIdle

FormatNext == FormatResults

SpecFormat == FormatInit /\ [][FormatNext]_vars

---------------------------------------------------------------------------
(* Two requests in parallel. The deployed handler never yields inside its   *)
(* loop (every call blocks), so this is the scheduling the service would    *)
(* have with parallelism added: a second request runs process_single_task   *)
(* and create_prediction for one task, its steps interleaved with the first *)
(* request's at the network calls (existence check, image fetch, write).    *)

\* lines 127-130: the parallel run's existence check
PeerCheck ==
    /\ peer.pc = "idle"
    /\ \E task \in TaskPool : \E status \in GetStatuses(task.id) :
         peer' = [peer EXCEPT !.pc = "get_image",
                              !.task = task.id,
                              !.check = status,
                              !.is_prediction_exist = (status = StatusOk)]
    /\ UNCHANGED <<platformVars, requestVars, nreq, idx, pc, localVars, predictions,
                   response, calls>>

\* lines 131-134: the parallel run fetches and decodes its image
PeerGetImage ==
    /\ peer.pc = "get_image"
    /\ LET task == CHOOSE t \in TaskPool : t.id = peer.task
           image_path == task.data.image
           object == StoredObject(GetObjectBucket(image_path), Basename(image_path))
       IN peer' = IF object.kind = "image"
                  THEN [peer EXCEPT !.pc = "detect", !.image_data = Some(object)]
                  ELSE [peer EXCEPT !.pc = "done"]
    /\ UNCHANGED <<platformVars, requestVars, nreq, idx, pc, localVars, predictions,
                   response, calls>>

\* lines 135-139: the parallel run detects and formats, or the detector throws
PeerDetect ==
    /\ peer.pc = "detect"
    /\ \/ LET image == peer.image_data[1]
              f == formatted_model_results("label", "image", image.shape[1],
                                           image.shape[2], DetectedLayout(image))
          IN peer' = [peer EXCEPT !.pc = "create_prediction",
                                  !.results = f.results,
                                  !.score = f.avg_score]
       \/ peer' = [peer EXCEPT !.pc = "done"]
    /\ UNCHANGED <<platformVars, requestVars, nreq, idx, pc, localVars, predictions,
                   response, calls>>

\* lines 164-166, 108-124: the parallel run's write
PeerWrite ==
    /\ peer.pc = "create_prediction"
    /\ LET method == WriteMethod(peer.is_prediction_exist)
           payload == WritePayload(peer.results, peer.task, peer.score)
           t == payload.task
       IN \E status \in WriteStatuses(method, t) :
            /\ peer' = [peer EXCEPT !.pc = "done", !.res = Some([status_code |-> status])]
            /\ IF ~Is2xx(status)
               THEN UNCHANGED platformVars
               ELSE /\ written' = written \cup {t}
                    /\ IF method = "POST"
                       THEN ls_predictions' =
                              [ls_predictions EXCEPT ![t] = Append(@, payload)]
                       ELSE \E k \in 1..Len(ls_predictions[t]) :
                              ls_predictions' =
                                [ls_predictions EXCEPT ![t] = [@ EXCEPT ![k] = payload]]
    /\ UNCHANGED <<requestVars, nreq, idx, pc, localVars, predictions, response, calls>>

ConcurrentNext ==
    \/ Next
    \/ PeerCheck
    \/ PeerGetImage
    \/ PeerDetect
    \/ PeerWrite

SpecConcurrent == Init /\ [][ConcurrentNext]_vars

---------------------------------------------------------------------------
(* Reading the call history *)

IsWrite(c) == c.op \in {"PUT", "POST"}
IsPlatformCall(c) == c.op \in {"GET", "PUT", "POST"}
WritesOf(i) == { p \in DOMAIN calls : IsWrite(calls[p]) /\ calls[p].idx = i }
ChecksOf(i) == { p \in DOMAIN calls : calls[p].op = "GET" /\ calls[p].idx = i }
Stored(t) == { ls_predictions[t][k] : k \in 1..Len(ls_predictions[t]) }

---------------------------------------------------------------------------
(* Claims *)

\* C1: in every reachable state no task_id has more than one Prediction on the
\* platform, and every task whose run completed a successful (2xx) write has
\* exactly one Prediction.
C1_OnePredictionPerTask ==
    /\ \A t \in TaskIds : Len(ls_predictions[t]) <= 1
    /\ \A t \in written : Len(ls_predictions[t]) = 1

\* C2: when a run of the pipeline already completed a successful write for a
\* task, the write of a later run for the same task is an update (PUT) and
\* leaves exactly one Prediction for the task on the platform.
C2_SecondRunUpdates ==
    [][ (pc = "create_prediction" /\ pc' = "append" /\ task_id \in written)
          => /\ calls'[Len(calls')].op = "PUT"
             /\ Len(ls_predictions'[task_id]) = 1 ]_vars

\* C3: every write is a PUT if and only if the existence check of the same task
\* run returned status 200, and a POST for any other status; the payload of the
\* write carries the run's result and score, the fixed model_version tag and
\* task = the task's id.
C3_WriteFollowsCheck ==
    /\ \A i \in 1..Len(tasks) : \A w \in WritesOf(i) :
         /\ \E g \in ChecksOf(i) : g < w
         /\ \A g \in ChecksOf(i) :
              (calls[w].op = "PUT") <=> (calls[g].status = 200)
         /\ calls[w].op = "POST" <=> ~(\E g \in ChecksOf(i) : calls[g].status = 200)
         /\ calls[w].payload # None
         /\ calls[w].payload[1].task = tasks[i].id
         /\ calls[w].payload[1].model_version = "detectron2"
    /\ pc = "append" =>
         /\ IsWrite(calls[Len(calls)])
         /\ calls[Len(calls)].payload =
              Some([result |-> results, score |-> score,
                    model_version |-> "detectron2", task |-> tasks[idx].id])

\* C3 witness: one request issued a PUT after a 200 check and a POST after a
\* non-200, non-404 check.
C3_Witness ==
    /\ \E w \in DOMAIN calls : calls[w].op = "PUT"
    /\ \E w \in DOMAIN calls :
         /\ calls[w].op = "POST"
         /\ \E g \in ChecksOf(calls[w].idx) : calls[g].status = 500


\* A step of a task run that failed: the image is missing, cannot be decoded,
\* or the detector raised.
FailedStep(c) == c.op \in {"get_object", "imdecode", "detect"} /\ ~Is2xx(c.status)

\* C4: when the processing of task i of a batch fails (image missing, decode
\* failure, detector exception), nothing is done for any task j > i (no
\* existence check, no image fetch, no write), no write is issued for task i,
\* the request returns no response list, and the predictions written for the
\* tasks before i are still on the platform.
C4_FirstFailureAborts ==
    \A p \in DOMAIN calls :
        FailedStep(calls[p]) =>
            /\ p = Len(calls)
            /\ \A q \in DOMAIN calls : calls[q].idx <= calls[p].idx
            /\ WritesOf(calls[p].idx) = {}
            /\ pc = "done"
            /\ response.kind = "exception"
            /\ Len(predictions) = calls[p].idx - 1
            /\ \A q \in DOMAIN calls :
                 (IsWrite(calls[q]) /\ Is2xx(calls[q].status))
                    => calls[q].payload[1] \in Stored(calls[q].task)

\* C4 witness: the second task of a batch failed at decoding after the first
\* task's write succeeded.
C4_Witness ==
    /\ Len(tasks) = 2
    /\ \E p \in DOMAIN calls :
         calls[p].idx = 2 /\ calls[p].op = "imdecode" /\ FailedStep(calls[p])
    /\ \E w \in WritesOf(1) : Is2xx(calls[w].status)

\* C5: a write that returns a non-2xx response is the only write request of its
\* task run (no retry), does not abort the batch, and the handler goes on: the
\* task's entry is appended and the batch ends only with the response list or
\* with the failure of a later task.
C5_WriteFailureContinues ==
    \A i \in 1..Len(tasks) : \A w \in WritesOf(i) :
        ~Is2xx(calls[w].status) =>
            /\ Cardinality(WritesOf(i)) = 1
            /\ \/ pc = "append" /\ idx = i
               \/ idx > i /\ Len(predictions) >= i
            /\ (pc = "done") =>
                 \/ response.kind = "list" /\ Len(response.body) = Len(tasks)
                 \/ \E p \in DOMAIN calls : FailedStep(calls[p]) /\ calls[p].idx > i

\* C5 witness: the first task's write failed and the second task's existence
\* check has been issued.
C5_Witness ==
    /\ \E w \in WritesOf(1) : ~Is2xx(calls[w].status)
    /\ ChecksOf(2) # {}

\* C6 (as claimed): no call to the annotation platform for a task (existence
\* check or write) happens before the task's image has been resolved and the
\* detection has run.
C6_PlatformAfterDetection ==
    \A p \in DOMAIN calls :
        IsPlatformCall(calls[p]) =>
            \E q \in 1..(p - 1) :
                /\ calls[q].idx = calls[p].idx
                /\ calls[q].op = "detect"
                /\ Is2xx(calls[q].status)

StepOrder == << "GET", "get_object", "imdecode", "detect", "format", "write" >>
StepName(c) == IF IsWrite(c) THEN "write" ELSE c.op
StepsBefore(p) == { q \in 1..p : calls[q].idx = calls[p].idx }

\* C6 (amended): for every task the steps happen in the order existence check,
\* resolve image (fetch, decode), detect, format, write, append to the response
\* list; the write is never issued before the image is resolved, the detection
\* has run and the result is formatted, and an entry is appended only after the
\* task's write; the existence check comes first, before the image is resolved.
C6_StepOrder ==
    /\ \A p \in DOMAIN calls :
         IF p = 1 \/ calls[p - 1].idx # calls[p].idx
         THEN StepName(calls[p]) = StepOrder[1]
         ELSE \E k \in 1..(Len(StepOrder) - 1) :
                 /\ StepName(calls[p - 1]) = StepOrder[k]
                 /\ StepName(calls[p]) = StepOrder[k + 1]
    /\ \A p \in 1..(Len(calls) - 1) : calls[p].idx <= calls[p + 1].idx
    /\ \A k \in 1..Len(predictions) : WritesOf(k) # {}

\* C6 witness: a task went through all its steps and has its response entry.
C6_Witness ==
    /\ Len(predictions) >= 1
    /\ \E p \in DOMAIN calls :
         calls[p].idx = 1 /\ IsWrite(calls[p]) /\ Cardinality(StepsBefore(p)) = 6

\* What the response entry of a task has to be: the formatted detections of the
\* task's own image.
ExpectedEntry(task) ==
    LET image_path == task.data.image
        image == StoredObject(GetObjectBucket(image_path), Basename(image_path))
        f == formatted_model_results(from_name, to_name, image.shape[1], image.shape[2],
                                     DetectedLayout(image))
    IN  [result |-> f.results, score |-> f.avg_score, model_version |-> "something"]

\* C7: a returned response list has as many entries as the input task list and
\* entry k is the result of input task k, also when a task occurs more than
\* once; tasks are processed one after another, the write of a task coming
\* before the first step of the next.
C7_ResponseMatchesInput ==
    /\ response.kind = "list" =>
         /\ Len(response.body) = Len(tasks)
         /\ \A k \in 1..Len(tasks) : response.body[k] = ExpectedEntry(tasks[k])
    /\ calls # << >> => calls[1].idx = 1
    /\ \A p \in 1..(Len(calls) - 1) :
         \/ calls[p + 1].idx = calls[p].idx
         \/ /\ calls[p + 1].idx = calls[p].idx + 1
            /\ IsWrite(calls[p])

\* C7 witness: a batch naming the same task twice returned its list.
C7_Witness ==
    /\ response.kind = "list"
    /\ Len(tasks) = 2
    /\ tasks[1] = tasks[2]
    /\ Len(response.body) = 2


\* The confidences of the first n detected regions, added up in hundredths.
RECURSIVE ConfidenceTotal(_, _)
ConfidenceTotal(blocks, n) ==
    IF n = 0 THEN 0 ELSE ConfidenceTotal(blocks, n - 1) + blocks[n].score.num

ImageWidth == image_data[1].shape[2]
ImageHeight == image_data[1].shape[1]

\* C8: the aggregate score is S/N when the N >= 1 confidences sum to S > 0, and
\* 0 when the region list is empty or all confidences are 0; the formatter
\* never divides by zero.
C8_AggregateScore ==
    /\ response # Exception("ZeroDivisionError")
    /\ pc = "create_prediction" =>
         LET N == Len(layout_predicted)
             S == ConfidenceTotal(layout_predicted, N)
         IN  /\ ~Raised(score)
             /\ (N >= 1 /\ S > 0) => RatEq(score, Rat(S, 100 * N))
             /\ (N = 0 \/ \A k \in 1..N : layout_predicted[k].score.num = 0)
                    => RatEq(score, Rat(0, 1))

\* C8 witness: two regions with confidences 0.5 and 0.7 gave the score 0.6.
C8_Witness ==
    /\ pc = "create_prediction"
    /\ Len(layout_predicted) = 2
    /\ layout_predicted[1].score = Rat(50, 100)
    /\ layout_predicted[2].score = Rat(70, 100)
    /\ RatEq(score, Rat(6, 10))

InPercentRange(v) == RatLeq(Rat(0, 1), v) /\ RatLeq(v, Rat(100, 1))

\* C9: every region the formatter produces, from any bounding box and any
\* positive image size, has x, y, width and height in [0,100], width and height
\* non-negative.
C9_RegionsWithinImage ==
    pc = "create_prediction" =>
        \A k \in 1..Len(results) :
            /\ InPercentRange(results[k].value.x)
            /\ InPercentRange(results[k].value.y)
            /\ InPercentRange(results[k].value.width)
            /\ InPercentRange(results[k].value.height)

\* C10: the formatter emits exactly one region per detected region, at the same
\* position, with rectanglelabels = [label], score = confidence,
\* x = (x1-30)/W*100, y = y1/H*100, width = (x2+10-(x1-30))/W*100,
\* height = (y2-y1)/H*100: x is padded by -30/+10 for every region, y never.
C10_Transform ==
    pc = "create_prediction" =>
        /\ Len(results) = Len(layout_predicted)
        /\ \A k \in 1..Len(layout_predicted) :
             LET b == layout_predicted[k]
                 r == results[k]
             IN  /\ r.value.rectanglelabels = << b.type >>
                 /\ r.score = b.score
                 /\ RatEq(r.value.x, Rat((b.block.x_1 - 30) * 100, ImageWidth))
                 /\ RatEq(r.value.y, Rat(b.block.y_1 * 100, ImageHeight))
                 /\ RatEq(r.value.width,
                          Rat((b.block.x_2 + 10 - (b.block.x_1 - 30)) * 100, ImageWidth))
                 /\ RatEq(r.value.height,
                          Rat((b.block.y_2 - b.block.y_1) * 100, ImageHeight))

\* C10 witness: the box (100,100,200,200) in a 1000 x 2000 image came out as
\* x = 7, y = 5, width = 14, height = 5.
C10_Witness ==
    /\ pc = "create_prediction"
    /\ Len(results) = 1
    /\ ImageWidth = 1000
    /\ layout_predicted[1].block = [x_1 |-> 100, y_1 |-> 100, x_2 |-> 200, y_2 |-> 200]
    /\ RatEq(results[1].value.x, Rat(7, 1))
    /\ RatEq(results[1].value.y, Rat(5, 1))
    /\ RatEq(results[1].value.width, Rat(14, 1))
    /\ RatEq(results[1].value.height, Rat(5, 1))


\* C11: a non-2xx response of the annotation platform, on the existence check
\* or on the write, is not caught within the batch loop: it propagates, ends
\* the batch, and nothing is done or returned for the tasks after it.
C11_PlatformFailurePropagates ==
    \A p \in DOMAIN calls :
        (IsPlatformCall(calls[p]) /\ ~Is2xx(calls[p].status)) =>
            /\ p = Len(calls)
            /\ pc = "done"
            /\ response.kind = "exception"


C13_FullReplace ==
    [][ ( /\ pc = "create_prediction"
          /\ pc' = "append"
          /\ calls'[Len(calls')].op = "PUT"
          /\ Is2xx(calls'[Len(calls')].status) )
        => LET e == ExpectedEntry(tasks[idx])
               payload == [result |-> e.result, score |-> e.score,
                           model_version |-> model_version, task |-> task_id]
           IN /\ calls'[Len(calls')].payload = Some(payload)
              /\ \E k \in 1..Len(ls_predictions[task_id]) :
                   ls_predictions'[task_id] = [ls_predictions[task_id] EXCEPT ![k] = payload]
              /\ Len(ls_predictions[task_id]) = 1 => ls_predictions'[task_id] = <<payload>>
              /\ \A u \in TaskIds \ {task_id} : ls_predictions'[u] = ls_predictions[u]
      ]_vars

\* C13 witness: the existence check returned the Prediction stored before the
\* service ran, the PUT was accepted, and the task now has one Prediction, with
\* regions and a positive score the old one did not have.
C13_Witness ==
    /\ pc = "append"
    /\ calls[Len(calls)].op = "PUT"
    /\ Is2xx(calls[Len(calls)].status)
    /\ previous_prediction_result = Some(OldPrediction(task_id))
    /\ results # << >>
    /\ RatGtZero(score)
    /\ ls_predictions[task_id] = << WritePayload(results, task_id, score) >>

\* C14: a request to a path other than /health, /setup and the predict route
\* is answered {error: "Invalid endpoint"}; /health, /setup and the unknown
\* paths are answered without any call to the object store or the annotation
\* platform, and the platform's Predictions are what they were.
C14_RouteDispatch ==
    [][ ( /\ pc = "idle"
          /\ pc' = "done"
          /\ path' # "/judgement_pipeline/predict" )
        => /\ calls' = << >>
           /\ ls_predictions' = ls_predictions
           /\ written' = written
           /\ response'.kind = "dict"
           /\ path' = "/health" => response'.body = [status |-> "ok"]
           /\ path' = "/setup" => response'.body = [status |-> "setup done"]
           /\ path' \notin {"/health", "/setup"} =>
                response'.body = [error |-> "Invalid endpoint"]
      ]_vars

\* C14 witness: after a request that wrote a Prediction, a request to an
\* unknown path got the error payload and made no call.
C14_Witness ==
    /\ pc = "done"
    /\ nreq = 2
    /\ written # {}
    /\ path \notin {"/health", "/setup", "/judgement_pipeline/predict", ""}
    /\ response = [kind |-> "dict", body |-> [error |-> "Invalid endpoint"]]
    /\ calls = << >>

\* C15: in the run of one task of a batch there is exactly one existence check
\* and at most one write request (so never a PUT and a POST); the write comes
\* after the task's existence check and after its image fetch, decode,
\* detection and formatting have all returned; a task whose image fetch,
\* decode or detection raised has its existence check and no write.
C15_OneCheckOneWrite ==
    \A i \in 1..Len(tasks) :
        LET steps == { p \in DOMAIN calls : calls[p].idx = i }
        IN  steps # {} =>
              /\ Cardinality(ChecksOf(i)) = 1
              /\ Cardinality(WritesOf(i)) <= 1
              /\ \A w \in WritesOf(i) :
                   /\ \E q \in steps : q < w /\ calls[q].op = "GET"
                   /\ \A op \in {"get_object", "imdecode", "detect", "format"} :
                        \E q \in steps :
                            q < w /\ calls[q].op = op /\ calls[q].status = StatusOk
              /\ (\E q \in steps : FailedStep(calls[q])) =>
                   /\ WritesOf(i) = {}
                   /\ Cardinality(ChecksOf(i)) = 1

\* C15 witness: the first task of a batch had its one check and its one write,
\* the detection of the second task raised after that task's existence check.
C15_Witness ==
    /\ Len(tasks) = 2
    /\ Cardinality(ChecksOf(1)) = 1
    /\ Cardinality(WritesOf(1)) = 1
    /\ \E p \in DOMAIN calls :
         calls[p].idx = 2 /\ calls[p].op = "detect" /\ FailedStep(calls[p])
    /\ Cardinality(ChecksOf(2)) = 1
    /\ WritesOf(2) = {}

\* C16: the entry of a task in the response list has the region list and the
\* score of the payload that was sent to the annotation platform for that
\* task, whether the platform accepted the write or refused it; an entry is
\* in the list only when the task's write request has returned.
C16_EntryEqualsPayload ==
    /\ \A k \in 1..Len(predictions) :
         /\ WritesOf(k) # {}
         /\ \A w \in WritesOf(k) :
              /\ calls[w].payload[1].result = predictions[k].result
              /\ calls[w].payload[1].score = predictions[k].score
    /\ response.kind = "list" => response.body = predictions
    /\ \A i \in 1..Len(tasks) :
         (WritesOf(i) = {} \/ (pc = "create_prediction" /\ idx = i))
            => Len(predictions) < i

\* C16 witness: the write of the first task was refused and the task's entry,
\* with the regions of the refused payload, is in the response list.
C16_Witness ==
    /\ Len(predictions) >= 1
    /\ predictions[1].result # << >>
    /\ \E w \in WritesOf(1) :
         /\ ~Is2xx(calls[w].status)
         /\ calls[w].payload[1].result = predictions[1].result

====
